---- MODULE Spec2Model ----
(***************************************************************************)
(* Model of src/src/function_app.py: the module-level bootstrap (guarded   *)
(* import of cosmos_ops, the five blueprint registration blocks, the two   *)
(* @app.route decorators) and the two health handlers.                     *)
(*                                                                         *)
(* The model starts after the unguarded imports of lines 24-30 have        *)
(* succeeded.  Exceptions are the classes derived from Exception (what the *)
(* SDK calls, the import system and the interpreter raise on failure).     *)
(***************************************************************************)
EXTENDS Integers, Sequences, FiniteSets, TLC

VARIABLES
    pc,             \* position in the module body: index into BootstrapOrder
    cosmos_ops,     \* TRUE iff the global name cosmos_ops is bound (line 34)
    app,            \* app's attached functions (routes/triggers), in order
    attempts,       \* history: the registration blocks entered, in order
    log,            \* the logging calls made at module level
    modules,        \* per feature module: what importing/registering it does
    environ,        \* os.environ of the process
    req,            \* the faults injected into the last request's I/O
    resp            \* the outcome of the last request

vars == <<pc, cosmos_ops, app, attempts, log, modules, environ, req, resp>>

----------------------------------------------------------------------------
(* Python values and helpers *)

None == "<None>"

\* truth value of a str-or-None
Truthy(x) == x # None /\ x # ""

\* Python `a or b` on str-or-None operands
PyOr(a, b) == IF Truthy(a) THEN a ELSE b

\* dict.update(u)
Update(d, u) ==
    [k \in DOMAIN d \cup DOMAIN u |-> IF k \in DOMAIN u THEN u[k] ELSE d[k]]

\* truth value of d.get("ok"): a missing key gives None, which is falsy
GetOk(d) == IF "ok" \in DOMAIN d THEN d["ok"] ELSE FALSE

Exc(cls, msg) == [cls |-> cls, msg |-> msg]
NoExc == Exc(None, None)

\* isinstance(e, base) for the exception classes that occur
IsInstance(cls, base) ==
    CASE base = "Exception"   -> cls # None
      [] base = "ImportError" -> cls \in {"ImportError", "ModuleNotFoundError"}
      [] OTHER                -> cls = base

\* index of the first except clause that handles cls, 0 when none does
FirstClause(cls, clauses) ==
    IF \E i \in 1..Len(clauses) : IsInstance(cls, clauses[i])
    THEN CHOOSE i \in 1..Len(clauses) :
            /\ IsInstance(cls, clauses[i])
            /\ \A j \in 1..(i - 1) : ~IsInstance(cls, clauses[j])
    ELSE 0

----------------------------------------------------------------------------
(* Inputs *)

\* what a feature module does when its block runs: imports and registers,
\* fails to import (ImportError), or raises in register_blueprint (TypeError)
ModuleFaults == {"none", "ImportError", "TypeError"}

CosmosImportFaults == {"none", "ImportError"}

ConnStrValues   == {None, "", "cs1"}
ConnStr2Values  == {None, "cs2"}
ContainerValues == {None, "c1"}
SnippetValues   == {None, "c2"}
DatabaseValues  == {None, "db"}

StorageFaults == {"none", "from_connection_string", "get_container_properties"}
CosmosFaults  == {"none", "get_container", "query_items"}

----------------------------------------------------------------------------
(* Module-level bootstrap, lines 32-124 *)

\* BootstrapOrder with the health routes declared above the registration
\* blocks
BootstrapOrderHealthFirst ==
    <<"cosmos_ops", "health", "health_extended", "bp_snippy", "query",
      "bp_embeddings", "bp_ingestion", "bp_multi_agent">>

\* the statements of the module body that the model steps through, in
\* source order: the cosmos_ops import guard, the five registration blocks,
\* the two route decorators
BootstrapOrder ==
    <<"cosmos_ops", "bp_snippy", "query", "bp_embeddings", "bp_ingestion",
      "bp_multi_agent", "health", "health_extended">>

At(step) == pc \in 1..Len(BootstrapOrder) /\ BootstrapOrder[pc] = step

\* the module body has run to its end: the host may dispatch requests
Serving == pc = Len(BootstrapOrder) + 1

\* an exception left the module body: the process failed to load
Aborted == pc = 0

\* the functions a module's blueprint carries (an HTTP route, an MCP trigger)
BlueprintFunctions(m) == << <<m, "http">>, <<m, "mcp">> >>

\* CosmosImportExceptClauses with a guard that handles a missing attribute only
CosmosImportExceptAttributeError == <<"AttributeError">>

\* except clause of the cosmos_ops import guard, line 35
CosmosImportExceptClauses == <<"Exception">>

\* try: from data import cosmos_ops / except Exception: logging.error
cosmos_import_block(fault) ==
    LET exc == IF fault = "none" THEN NoExc
               ELSE Exc(fault, "data.cosmos_ops")
        clause == FirstClause(exc.cls, CosmosImportExceptClauses)
    IN  IF exc.cls = None
        THEN [bound |-> TRUE, log |-> <<>>, propagated |-> FALSE]
        ELSE IF clause = 1
        THEN [bound |-> FALSE,
              log |-> << <<"error", "Failed to import cosmos_ops during startup">> >>,
              propagated |-> FALSE]
        ELSE [bound |-> FALSE, log |-> <<>>, propagated |-> TRUE]

\* register_blueprint attaching function by function and raising midway
register_blueprint_partial(fb, m, fault) ==
    IF fault = "TypeError"
    THEN [exc |-> Exc("TypeError", m),
          app |-> Append(fb, BlueprintFunctions(m)[1])]
    ELSE [exc |-> NoExc, app |-> fb \o BlueprintFunctions(m)]

\* app.register_blueprint(m.bp): raises before attaching anything, or
\* extends the app's function list with all of the blueprint's functions
register_blueprint(fb, m, fault) ==
    IF fault = "TypeError"
    THEN [exc |-> Exc("TypeError", m), app |-> fb]
    ELSE [exc |-> NoExc, app |-> fb \o BlueprintFunctions(m)]

\* RegistrationExceptClauses without the second clause
RegistrationExceptImportErrorOnly == <<"ImportError">>

\* except clauses of a registration block, lines 47 and 49
RegistrationExceptClauses == <<"ImportError", "Exception">>

\* one registration block: try: import m; app.register_blueprint(m.bp);
\* logging.info / except ImportError: logging.error / except Exception:
\* logging.error
register_block(fb, m, fault) ==
    LET body == IF fault = "ImportError"
                THEN [exc |-> Exc("ImportError", m), app |-> fb]
                ELSE register_blueprint(fb, m, fault)
        clause == FirstClause(body.exc.cls, RegistrationExceptClauses)
    IN  IF body.exc.cls = None
        THEN [app |-> body.app, propagated |-> FALSE,
              log |-> <<"info", m, "registered successfully">>]
        ELSE IF clause = 1
        THEN [app |-> body.app, propagated |-> FALSE,
              log |-> <<"error", m, "Import error">>]
        ELSE IF clause = 2
        THEN [app |-> body.app, propagated |-> FALSE,
              log |-> <<"error", m, "registration failed">>]
        ELSE [app |-> body.app, propagated |-> TRUE,
              log |-> <<"error", m, "unhandled">>]

NoRequest == [route |-> None]

ImportCosmosOps ==
    /\ At("cosmos_ops")
    /\ \E fault \in CosmosImportFaults :
          LET r == cosmos_import_block(fault)
          IN  /\ cosmos_ops' = r.bound
              /\ log' = log \o r.log
              /\ pc' = IF r.propagated THEN 0 ELSE pc + 1
    /\ UNCHANGED <<app, attempts, modules, environ, req, resp>>

Register(m) ==
    /\ At(m)
    /\ LET r == register_block(app, m, modules[m])
       IN  /\ app' = r.app
           /\ log' = IF r.propagated THEN log ELSE Append(log, r.log)
           /\ pc' = IF r.propagated THEN 0 ELSE pc + 1
    /\ attempts' = Append(attempts, m)
    /\ UNCHANGED <<cosmos_ops, modules, environ, req, resp>>

RegisterSnippy     == Register("bp_snippy")
RegisterQuery      == Register("query")
RegisterEmbeddings == Register("bp_embeddings")
RegisterIngestion  == Register("bp_ingestion")
RegisterMultiAgent == Register("bp_multi_agent")

\* @app.route(route=...) attaches the decorated handler to the app
Route(name) ==
    /\ At(name)
    /\ app' = Append(app, <<name, "http">>)
    /\ pc' = pc + 1
    /\ UNCHANGED <<cosmos_ops, attempts, log, modules, environ, req, resp>>

RouteHealth         == Route("health")
RouteHealthExtended == Route("health_extended")

----------------------------------------------------------------------------
(* GET /health, lines 98-119 *)

\* http_health_check reporting on the storage configuration
http_health_check_reads_config(e) ==
    IF Truthy(PyOr(e.AzureWebJobsStorage, e.STORAGE_CONNECTION_STRING))
    THEN [route |-> "health", raised |-> NoExc, status_code |-> 200,
          body |-> [status |-> "ok"], calls |-> <<>>, probes |-> <<>>]
    ELSE [route |-> "health", raised |-> NoExc, status_code |-> 500,
          body |-> [status |-> "error", message |-> "storage not configured"],
          calls |-> <<>>, probes |-> <<>>]

\* the handler reads nothing of the process: logging.info, json.dumps of a
\* constant dict and the HttpResponse constructor are the whole try body,
\* and none of them raises on these arguments
http_health_check(e) ==
    LET body == [exc |-> NoExc, calls |-> <<>>]
    IN  IF body.exc.cls = None
        THEN [route |-> "health", raised |-> NoExc, status_code |-> 200,
              body |-> [status |-> "ok"], calls |-> body.calls,
              probes |-> <<>>]
        ELSE [route |-> "health", raised |-> NoExc, status_code |-> 500,
              body |-> [status |-> "error", message |-> body.exc.msg],
              calls |-> body.calls, probes |-> <<>>]

----------------------------------------------------------------------------
(* GET /health_extended, lines 123-188 *)

\* blob_client.url: the account endpoint the connection string names
AccountUrl(conn_str) ==
    IF conn_str = "cs1" THEN "https://acct1.blob.core.windows.net/"
    ELSE "https://acct2.blob.core.windows.net/"

\* storage_try without the `if not conn_str: raise` of lines 139-140: the
\* SDK is handed the absent connection string and rejects it
storage_try_unchecked(e, fault) ==
    LET conn_str == PyOr(e.AzureWebJobsStorage, e.STORAGE_CONNECTION_STRING)
        ingestion_container ==
            PyOr(PyOr(e.INGESTION_CONTAINER, e.STORAGE_CONTAINER_SNIPPETINPUT),
                 "snippet-input")
        storage_result == [ok |-> FALSE]
    IN  IF ~Truthy(conn_str) \/ fault = "from_connection_string"
        THEN [exc |-> Exc("ValueError", "Connection string is either blank or malformed."),
              result |-> storage_result,
              calls |-> <<"BlobServiceClient.from_connection_string">>]
        ELSE IF fault = "get_container_properties"
        THEN [exc |-> Exc("HttpResponseError", "storage request failed"),
              result |-> storage_result,
              calls |-> <<"BlobServiceClient.from_connection_string",
                          "get_container_client", "get_container_properties">>]
        ELSE [exc |-> NoExc,
              result |-> Update(storage_result,
                                [ok |-> TRUE,
                                 container |-> ingestion_container,
                                 account_url |-> AccountUrl(conn_str)]),
              calls |-> <<"BlobServiceClient.from_connection_string",
                          "get_container_client", "get_container_properties">>]

\* the try body of the storage probe, lines 133-151: the exception it ends
\* with (NoExc when it runs to its end), storage_result as it then stands,
\* and the storage SDK calls made
storage_try(e, fault) ==
    LET conn_str == PyOr(e.AzureWebJobsStorage, e.STORAGE_CONNECTION_STRING)
        ingestion_container ==
            PyOr(PyOr(e.INGESTION_CONTAINER, e.STORAGE_CONTAINER_SNIPPETINPUT),
                 "snippet-input")
        storage_result == [ok |-> FALSE]
    IN  IF ~Truthy(conn_str)
        THEN [exc |-> Exc("ValueError",
                          "Missing AzureWebJobsStorage/ STORAGE_CONNECTION_STRING env var"),
              result |-> storage_result, calls |-> <<>>]
        ELSE IF fault = "from_connection_string"
        THEN [exc |-> Exc("ValueError", "Connection string is either blank or malformed."),
              result |-> storage_result,
              calls |-> <<"BlobServiceClient.from_connection_string">>]
        ELSE IF fault = "get_container_properties"
        THEN [exc |-> Exc("HttpResponseError", "storage request failed"),
              result |-> storage_result,
              calls |-> <<"BlobServiceClient.from_connection_string",
                          "get_container_client", "get_container_properties">>]
        ELSE [exc |-> NoExc,
              result |-> Update(storage_result,
                                [ok |-> TRUE,
                                 container |-> ingestion_container,
                                 account_url |-> AccountUrl(conn_str)]),
              calls |-> <<"BlobServiceClient.from_connection_string",
                          "get_container_client", "get_container_properties">>]

\* cosmos_ops.get_container(): the database configuration is read first and
\* its absence raises before the client is used; otherwise the database and
\* container are fetched (created when missing)
get_container(e, fault) ==
    IF ~Truthy(e.COSMOS_DATABASE_NAME)
    THEN [exc |-> Exc("ValueError", "Missing COSMOS_DATABASE_NAME"),
          calls |-> <<>>]
    ELSE IF fault = "get_container"
    THEN [exc |-> Exc("CosmosHttpResponseError", "cosmos request failed"),
          calls |-> <<"create_container_if_not_exists">>]
    ELSE [exc |-> NoExc, calls |-> <<"create_container_if_not_exists">>]

\* the try body of the database probe, lines 158-169
cosmos_try(e, bound, fault) ==
    LET cosmos_result == [ok |-> FALSE]
        gc == get_container(e, fault)
    IN  IF ~bound
        THEN [exc |-> Exc("NameError", "name 'cosmos_ops' is not defined"),
              result |-> cosmos_result, calls |-> <<>>]
        ELSE IF gc.exc.cls # None
        THEN [exc |-> gc.exc, result |-> cosmos_result, calls |-> gc.calls]
        ELSE IF fault = "query_items"
        THEN [exc |-> Exc("CosmosHttpResponseError", "query failed"),
              result |-> cosmos_result,
              calls |-> gc.calls \o <<"query_items">>]
        ELSE [exc |-> NoExc,
              result |-> Update(cosmos_result,
                                [ok |-> TRUE,
                                 database |-> e.COSMOS_DATABASE_NAME,
                                 container |-> e.COSMOS_CONTAINER_NAME]),
              calls |-> gc.calls \o <<"query_items">>]

\* ProbeExceptClauses handling the configuration error only
ProbeExceptValueErrorOnly == <<"ValueError">>

\* except clause of both probes, lines 152 and 170
ProbeExceptClauses == <<"Exception">>

\* try: <body> / except Exception as e: result.update({"error": str(e)})
probe(body) ==
    IF body.exc.cls = None
    THEN [result |-> body.result, calls |-> body.calls, propagated |-> NoExc]
    ELSE IF FirstClause(body.exc.cls, ProbeExceptClauses) = 1
    THEN [result |-> Update(body.result, [error |-> body.exc.msg]),
          calls |-> body.calls, propagated |-> NoExc]
    ELSE [result |-> body.result, calls |-> body.calls, propagated |-> body.exc]

\* overall_ok with `or` in place of `and`
overall_ok_either(storage_result, cosmos_result) ==
    GetOk(storage_result) \/ GetOk(cosmos_result)

\* line 174
overall_ok(storage_result, cosmos_result) ==
    GetOk(storage_result) /\ GetOk(cosmos_result)

\* http_health_check_extended returning as soon as the storage probe fails
http_health_check_extended_short_circuit(e, bound, sfault, cfault) ==
    LET s == probe(storage_try(e, sfault))
        c == probe(cosmos_try(e, bound, cfault))
        ok == overall_ok(s.result, c.result)
    IN  IF ~GetOk(s.result)
        THEN [route |-> "health_extended", raised |-> NoExc,
              status_code |-> 500,
              body |-> [status |-> "error", storage |-> s.result],
              calls |-> s.calls, probes |-> <<"storage">>]
        ELSE [route |-> "health_extended", raised |-> NoExc,
              status_code |-> IF ok THEN 200 ELSE 500,
              body |-> [status |-> IF ok THEN "ok" ELSE "error",
                        storage |-> s.result, cosmos |-> c.result],
              calls |-> s.calls \o c.calls,
              probes |-> <<"storage", "cosmos">>]

\* lines 128-188
http_health_check_extended(e, bound, sfault, cfault) ==
    LET s == probe(storage_try(e, sfault))
        c == probe(cosmos_try(e, bound, cfault))
        ok == overall_ok(s.result, c.result)
        status == IF ok THEN "ok" ELSE "error"
        http_status == IF ok THEN 200 ELSE 500
    IN  IF s.propagated.cls # None
        THEN [route |-> "health_extended", raised |-> s.propagated,
              status_code |-> 0, body |-> <<>>, calls |-> s.calls,
              probes |-> <<"storage">>]
        ELSE IF c.propagated.cls # None
        THEN [route |-> "health_extended", raised |-> c.propagated,
              status_code |-> 0, body |-> <<>>, calls |-> s.calls \o c.calls,
              probes |-> <<"storage", "cosmos">>]
        ELSE [route |-> "health_extended", raised |-> NoExc,
              status_code |-> http_status,
              body |-> [status |-> status, storage |-> s.result,
                        cosmos |-> c.result],
              calls |-> s.calls \o c.calls,
              probes |-> <<"storage", "cosmos">>]

NoFaults == [storage |-> "none", cosmos |-> "none"]

HttpHealthCheck ==
    /\ Serving
    /\ resp' = http_health_check(environ)
    /\ req' = NoFaults
    /\ UNCHANGED <<pc, cosmos_ops, app, attempts, log, modules, environ>>

HttpHealthCheckExtended ==
    /\ Serving
    /\ \E sfault \in StorageFaults, cfault \in CosmosFaults :
          /\ req' = [storage |-> sfault, cosmos |-> cfault]
          /\ resp' = http_health_check_extended(environ, cosmos_ops, sfault, cfault)
    /\ UNCHANGED <<pc, cosmos_ops, app, attempts, log, modules, environ>>

----------------------------------------------------------------------------
(* Specification *)

Modules ==
    {"bp_snippy", "query", "bp_embeddings", "bp_ingestion", "bp_multi_agent"}

Environs ==
    [AzureWebJobsStorage            : ConnStrValues,
     STORAGE_CONNECTION_STRING      : ConnStr2Values,
     INGESTION_CONTAINER            : ContainerValues,
     STORAGE_CONTAINER_SNIPPETINPUT : SnippetValues,
     COSMOS_DATABASE_NAME           : DatabaseValues,
     COSMOS_CONTAINER_NAME          : {"snippets"}]

Init ==
    /\ pc = 1
    /\ cosmos_ops = FALSE
    /\ app = <<>>
    /\ attempts = <<>>
    /\ log = <<>>
    /\ modules \in [Modules -> ModuleFaults]
    /\ environ \in Environs
    /\ req = NoFaults
    /\ resp = NoRequest

Next ==
    \/ ImportCosmosOps
    \/ RegisterSnippy
    \/ RegisterQuery
    \/ RegisterEmbeddings
    \/ RegisterIngestion
    \/ RegisterMultiAgent
    \/ RouteHealth
    \/ RouteHealthExtended
    \/ HttpHealthCheck
    \/ HttpHealthCheckExtended

Spec == Init /\ [][Next]_vars

----------------------------------------------------------------------------
(* Properties *)

Extended == resp.route = "health_extended"
Answered == Extended /\ resp.raised.cls = None

ConnStrAbsent ==
    /\ environ.AzureWebJobsStorage \in {None, ""}
    /\ environ.STORAGE_CONNECTION_STRING \in {None, ""}

DatabaseNameAbsent == environ.COSMOS_DATABASE_NAME \in {None, ""}

InApp(f) == \E i \in 1..Len(app) : app[i] = f

Registered(m) == InApp(<<m, "http">>) /\ InApp(<<m, "mcp">>)

Attempted(m) == \E i \in 1..Len(attempts) : attempts[i] = m

SourceOrder ==
    <<"bp_snippy", "query", "bp_embeddings", "bp_ingestion", "bp_multi_agent">>

\* C1: an extended health response is 200 with status "ok" exactly when both
\* probe results have ok = TRUE, and 500 with status "error" otherwise; no
\* other status or code occurs.
C1_StatusIffBothOk ==
    Extended =>
        /\ resp.raised.cls = None
        /\ LET both == resp.body.storage.ok /\ resp.body.cosmos.ok
           IN  /\ both => resp.status_code = 200 /\ resp.body.status = "ok"
               /\ ~both => resp.status_code = 500 /\ resp.body.status = "error"

\* a probe raised before its result was populated while the other succeeded
C1_Witness ==
    /\ Answered
    /\ ConnStrAbsent
    /\ ~resp.body.storage.ok
    /\ resp.body.cosmos.ok
    /\ resp.status_code = 500

\* C2: whichever modules fail, the load does not abort, the five blocks are
\* entered once each in source order, and a module ends registered exactly
\* when its own import and registration succeed.
C2_RegistrationIsolated ==
    /\ ~Aborted
    /\ Len(attempts) <= Len(SourceOrder)
    /\ attempts = SubSeq(SourceOrder, 1, Len(attempts))
    /\ pc \in 1..6 => ENABLED Next
    /\ pc > 6 => attempts = SourceOrder
    /\ \A m \in Modules :
          /\ Attempted(m) => (Registered(m) <=> modules[m] = "none")
          /\ ~Attempted(m) => ~InApp(<<m, "http">>) /\ ~InApp(<<m, "mcp">>)

\* two modules failed in both ways and the modules after them registered
C2_Witness ==
    /\ Serving
    /\ modules["bp_snippy"] = "ImportError"
    /\ modules["bp_embeddings"] = "TypeError"
    /\ Registered("query")
    /\ Registered("bp_ingestion")
    /\ Registered("bp_multi_agent")
    /\ ~Registered("bp_snippy")
    /\ ~Registered("bp_embeddings")

\* C3: every extended health response carries both the storage and the
\* cosmos entry, and the database probe is run whatever the storage probe
\* gave.
C3_BothEntries ==
    Extended =>
        /\ resp.raised.cls = None
        /\ {"storage", "cosmos"} \subseteq DOMAIN resp.body
        /\ resp.probes = <<"storage", "cosmos">>
        /\ (cosmos_ops /\ ~DatabaseNameAbsent)
              => \E i \in 1..Len(resp.calls) :
                    resp.calls[i] = "create_container_if_not_exists"

\* the storage probe failed and the database probe still ran and succeeded
C3_Witness ==
    /\ Answered
    /\ ~resp.body.storage.ok
    /\ req.storage = "get_container_properties"
    /\ resp.body.cosmos.ok
    /\ resp.calls[Len(resp.calls)] = "query_items"

ProbeResultSound(r, ok_possible) ==
    /\ "ok" \in DOMAIN r
    /\ ("error" \in DOMAIN r) <=> ~r.ok
    /\ r.ok => ok_possible
    /\ ~r.ok => r.error # None

\* C4: no probe exception leaves the handler; a result is ok only if no step
\* of its probe raised, and it has an "error" key exactly when it is not ok.
C4_ProbeExceptionsCaught ==
    Extended =>
        /\ resp.raised.cls = None
        /\ ProbeResultSound(resp.body.storage,
                            req.storage = "none" /\ ~ConnStrAbsent)
        /\ ProbeResultSound(resp.body.cosmos,
                            req.cosmos = "none" /\ cosmos_ops
                                /\ ~DatabaseNameAbsent)

\* both probes raised in their I/O call and both were converted
C4_Witness ==
    /\ Answered
    /\ ~ConnStrAbsent
    /\ req.storage = "get_container_properties"
    /\ cosmos_ops
    /\ ~DatabaseNameAbsent
    /\ req.cosmos = "query_items"
    /\ resp.body.storage.error = "storage request failed"
    /\ resp.body.cosmos.error = "query failed"

StorageCalls ==
    {"BlobServiceClient.from_connection_string", "get_container_client",
     "get_container_properties"}

CosmosCalls == {"create_container_if_not_exists", "query_items"}

CallsMade == {resp.calls[i] : i \in 1..Len(resp.calls)}

C6_ShallowAlwaysOk ==
    resp.route = "health" =>
        /\ resp.raised.cls = None
        /\ resp.status_code = 200
        /\ resp.body = [status |-> "ok"]
        /\ resp.calls = <<>>
        /\ resp.probes = <<>>

\* nothing is configured, cosmos_ops failed to import and no module loaded
C6_Witness ==
    /\ resp.route = "health"
    /\ ConnStrAbsent
    /\ DatabaseNameAbsent
    /\ ~cosmos_ops
    /\ \A m \in Modules : ~Registered(m)

\* C7: a registration block whose import or register_blueprint call fails
\* leaves the app's functions as they were; a successful one appends that
\* module's functions and nothing else.
C7_FailedRegistrationFrame ==
    [][\A m \in Modules :
          At(m) => IF modules[m] = "none"
                   THEN app' = app \o BlueprintFunctions(m)
                   ELSE app' = app]_vars

\* register_blueprint raised for query after bp_snippy had been attached
C7_Witness ==
    /\ Attempted("query")
    /\ modules["query"] = "TypeError"
    /\ modules["bp_snippy"] = "none"
    /\ app = BlueprintFunctions("bp_snippy")

HealthRoutes == {<<"health", "http">>, <<"health_extended", "http">>}

\* C8: the five registration attempts, made once each, are over before a
\* health route is attached and before a request is served; once the module
\* body has run, both health routes are attached, whatever failed.
C8_RegistrationBeforeServing ==
    /\ ~Aborted
    /\ ~Serving => ENABLED Next
    /\ (\E f \in HealthRoutes : InApp(f)) => attempts = SourceOrder
    /\ resp # NoRequest => Serving
    /\ Serving =>
          /\ attempts = SourceOrder
          /\ \A f \in HealthRoutes :
                Cardinality({i \in 1..Len(app) : app[i] = f}) = 1

\* a request was served after a load in which every registration failed
C8_Witness ==
    /\ Serving
    /\ Extended
    /\ \A m \in Modules : modules[m] # "none"
    /\ app = << <<"health", "http">>, <<"health_extended", "http">> >>

ImportFailed == pc # 1 /\ ~cosmos_ops

\* C10: when the import of cosmos_ops fails it is logged, the load goes on
\* to the registrations and the health routes, and every extended health
\* response is complete, with cosmos ok = FALSE and an error, code 500, and
\* the storage result the storage probe alone determines.
C10_CosmosImportFailure ==
    ImportFailed =>
        /\ ~Aborted
        /\ log[1] = <<"error", "Failed to import cosmos_ops during startup">>
        /\ ~Serving => ENABLED Next
        /\ Serving =>
              /\ attempts = SourceOrder
              /\ \A f \in HealthRoutes : InApp(f)
        /\ Extended =>
              /\ resp.raised.cls = None
              /\ {"status", "storage", "cosmos"} \subseteq DOMAIN resp.body
              /\ ~resp.body.cosmos.ok
              /\ resp.body.cosmos.error # None
              /\ resp.status_code = 500
              /\ resp.body.storage.ok <=>
                    (req.storage = "none" /\ ~ConnStrAbsent)

\* the import failed and a later extended check found storage healthy
C10_Witness ==
    /\ ImportFailed
    /\ Answered
    /\ resp.body.storage.ok
    /\ resp.body.cosmos.error = "name 'cosmos_ops' is not defined"
    /\ resp.status_code = 500

====
